---- MODULE Spec2Model ----
(***************************************************************************)
(* reggc: a service that deletes registry images no pod references and     *)
(* then triggers the registry's garbage collection (src/gc.go).            *)
(*                                                                         *)
(* Strings of the program whose characters matter (image references,       *)
(* repository names, tags) are sequences of one-character strings, so      *)
(* that composing and cutting them is computed and not assumed.            *)
(***************************************************************************)
EXTENDS Integers, Sequences, FiniteSets, Bags, TLC

VARIABLES
    registry,    \* the registry's contents: set of <<repository, tag>>
    pods,        \* images declared by the containers of the cluster's pods
    envSteps,    \* number of changes made by others to registry / pods
    clock,       \* time since the ticker last fired, in quanta
    tickBuf,     \* number of ticks buffered in ticker.C (capacity 1)
    pc,          \* position of main / run
    err,         \* error returned by run (or by deleteImage when called alone)
    idx,         \* index of the repository whose tags are listed next
    imgs,        \* fetchRegistryImages: imgs, and the inventory it returned
    regimgs,     \* run: regimgs
    podimgs,     \* run: podimgs
    attempted,   \* images passed to deleteImage in this cycle
    deleted,     \* images for which deleteImage returned nil in this cycle
    tagDeletes,  \* <<repository, tag>> passed to rc.TagDelete in this cycle
    wsRes,       \* outcome of the WebSocket stream in this cycle
    spdyRes,     \* outcome of the legacy (SPDY) stream in this cycle
    buf,         \* gcRegistry: buf.Len() > 0
    execs,       \* gcRegistry: what became of building spdyExec and wsExec
    calls,       \* bag of the calls made to the registry and the cluster
                 \* in this cycle
    active,      \* number of calls of run that have not returned
    quiet,       \* history: whether others have left the inventories alone
    prev         \* history: what the cycle before this one did

vars == <<registry, pods, envSteps, clock, tickBuf, pc, err, idx, imgs,
          regimgs, podimgs, attempted, deleted, tagDeletes, wsRes, spdyRes,
          buf, execs, calls, active, quiet, prev>>

envVars   == <<registry, pods, envSteps>>
timeVars  == <<clock, tickBuf>>
fetchVars == <<idx, imgs, regimgs, podimgs>>
delVars   == <<attempted, deleted, tagDeletes>>
gcVars    == <<wsRes, spdyRes, buf, execs>>

(***************************************************************************)
(* Bounds of the model.                                                    *)
(***************************************************************************)
MaxEnvSteps == 1     \* changes by others to the registry or the pods
Interval == 2        \* quanta of model time in one period of the ticker

(***************************************************************************)
(* Strings.                                                                *)
(***************************************************************************)
PublicHost == <<"c","t","r",".","l","e","s","i","w",".","d","e","v">>
RegistryHost == <<"r","e","g","i","s","t","r","y",":","5","0","0","0">>

RepoA == <<"a">>
RepoLA == <<"l","/","a">>
TagV1 == <<"v","1">>
TagV2 == <<"v","2">>

\* the repositories of the registry, in the order RepoList returns them
Repositories == <<RepoA, RepoLA>>
Tags == {TagV1, TagV2}
RepoSet == {Repositories[i] : i \in 1..Len(Repositories)}

\* the repositories and tags that may be in the registry
Stored == {<<RepoA, TagV1>>, <<RepoA, TagV2>>, <<RepoLA, TagV1>>}

\* strings.Index for a one-character separator; 0 when absent
Index(s, sep) ==
    IF \E i \in 1..Len(s) : s[i] = sep
    THEN CHOOSE i \in 1..Len(s) :
             s[i] = sep /\ \A j \in 1..(i-1) : s[j] # sep
    ELSE 0

\* strings.Cut(s, sep)
Cut(s, sep) ==
    LET i == Index(s, sep)
    IN  IF i = 0
        THEN [before |-> s, after |-> <<>>, found |-> FALSE]
        ELSE [before |-> SubSeq(s, 1, i-1),
              after  |-> SubSeq(s, i+1, Len(s)),
              found  |-> TRUE]

\* variant: the inventory is composed with the registry's internal address
ComposeRefRegistryHost(repo, tag) ==
    RegistryHost \o <<"/">> \o repo \o <<":">> \o tag

\* "ctr.lesiw.dev/"+repo+":"+tag
ComposeRef(repo, tag) == PublicHost \o <<"/">> \o repo \o <<":">> \o tag

\* canonical string form of an image reference: host/repository:tag
ImageName(host, repo, tag) == host \o <<"/">> \o repo \o <<":">> \o tag

\* a container image that names no registry host, repository or tag
Nginx == <<"n","g","i","n","x">>

\* images the containers of the cluster's pods may declare (ctr.Image)
PodImages ==
    { ImageName(PublicHost, RepoA, TagV1),
      ImageName(RegistryHost, RepoA, TagV2),
      Nginx }

\* strings deleteImage is called with when it is called on its own
TestStrings ==
    { <<>>,
      Nginx,
      <<"/">>,
      <<"a",":","v","1">>,
      PublicHost \o <<"/">> \o RepoA,
      RegistryHost \o <<"/">> \o RepoA,
      PublicHost \o <<"/">> \o RepoLA,
      <<"/",":">>,
      RegistryHost \o <<"/",":">> \o TagV1,
      ImageName(PublicHost, RepoA, TagV1),
      ImageName(PublicHost, RepoLA, TagV1),
      ImageName(RegistryHost, RepoA, TagV2),
      ImageName(<<"x">>, RepoLA, TagV1) }

(***************************************************************************)
(* quiet records, for the cycle in progress or just ended:                 *)
(*   "running" no other client has changed the registry or the pods since  *)
(*             the cycle started                                           *)
(*   "clean"   as "running", and the cycle has left its deletion loop      *)
(*             with every deletion succeeding                              *)
(*   "none"    otherwise                                                   *)
(* prev records, for the cycle before the one in progress (while main is   *)
(* blocked on the ticker: for the cycle that has just ended):              *)
(*   "deleted" it was "clean" when it ended and had deleted something, and *)
(*             no other client has changed the registry or the pods since  *)
(*   "nothing" the same, but it had nothing to delete                      *)
(*   "none"    otherwise                                                   *)
(***************************************************************************)

(***************************************************************************)
(* Initial states.                                                         *)
(***************************************************************************)
Locals ==
    /\ err = "none"
    /\ idx = 1
    /\ imgs = {}
    /\ regimgs = {}
    /\ podimgs = {}
    /\ attempted = {}
    /\ deleted = {}
    /\ tagDeletes = {}
    /\ wsRes = "none"
    /\ spdyRes = "none"
    /\ buf = FALSE
    /\ execs = "none"
    /\ calls = EmptyBag

\* main has created the ticker and is about to call run for the first time
Init ==
    /\ registry \in SUBSET Stored
    /\ pods \in SUBSET PodImages
    /\ envSteps = 0
    /\ clock = 0
    /\ tickBuf = 0
    /\ pc = "run"
    /\ active = 1
    /\ quiet = "running"
    /\ prev = "none"
    /\ Locals

(***************************************************************************)
(* main: for ; true; <-ticker.C { run() }                                  *)
(***************************************************************************)
\* run's variables as they are before run is called and after main has
\* dealt with what run returned
Fresh ==
    /\ err' = "none"
    /\ idx' = 1
    /\ imgs' = {}
    /\ regimgs' = {}
    /\ podimgs' = {}
    /\ attempted' = {}
    /\ deleted' = {}
    /\ tagDeletes' = {}
    /\ wsRes' = "none"
    /\ spdyRes' = "none"
    /\ buf' = FALSE
    /\ execs' = "none"
    /\ calls' = EmptyBag

\* the loop body starts: run() is called
StartCycle ==
    /\ pc' = "run"
    /\ active' = active + 1
    /\ quiet' = "running"
    /\ Fresh

\* main blocks on the receive from ticker.C
Block ==
    /\ pc' = "wait"
    /\ quiet' = "none"
    /\ UNCHANGED active
    /\ Fresh

\* what prev is to record of the cycle that has just returned
PrevAtReturn ==
    IF quiet = "clean"
    THEN (IF deleted # {} THEN "deleted" ELSE "nothing")
    ELSE "none"

\* run returns e to main
Return(e) ==
    /\ pc' = "ret"
    /\ err' = e
    /\ active' = active - 1
    /\ quiet' = IF e \in {"none", "gc", "gc with output", "spdy executor",
                          "websocket executor"}
                THEN quiet ELSE "none"

\* variant: a failed cycle is retried at once
LoopRetryOnError ==
    /\ pc = "ret"
    /\ prev' = PrevAtReturn
    /\ IF err # "none"
       THEN /\ StartCycle
            /\ UNCHANGED tickBuf
       ELSE IF tickBuf = 1
       THEN /\ tickBuf' = 0
            /\ StartCycle
       ELSE /\ Block
            /\ UNCHANGED tickBuf
    /\ UNCHANGED <<envVars, clock>>

\* variant: a failed cycle ends the process
LoopExitOnError ==
    /\ pc = "ret"
    /\ prev' = PrevAtReturn
    /\ IF err # "none"
       THEN /\ pc' = "exit"
            /\ quiet' = "none"
            /\ UNCHANGED active
            /\ Fresh
            /\ UNCHANGED tickBuf
       ELSE IF tickBuf = 1
       THEN /\ tickBuf' = 0
            /\ StartCycle
       ELSE /\ Block
            /\ UNCHANGED tickBuf
    /\ UNCHANGED <<envVars, clock>>

\* main logs the error, if any, and evaluates the post statement <-ticker.C:
\* a buffered tick is received at once, otherwise main blocks
Loop ==
    /\ pc = "ret"
    /\ prev' = PrevAtReturn
    /\ IF tickBuf = 1
       THEN /\ tickBuf' = 0
            /\ StartCycle
       ELSE /\ Block
            /\ UNCHANGED tickBuf
    /\ UNCHANGED <<envVars, clock>>

\* the positions of run at which a call made with context.Background() is
\* outstanding
CallPositions == {"repolist", "taglist", "podlist", "delete", "ws", "spdy"}

\* the position of run inside a call, made at p, that never returns
HungAt(p) ==
    CASE p = "repolist" -> "hung in RepoList"
      [] p = "taglist" -> "hung in TagList"
      [] p = "podlist" -> "hung in Pods.List"
      [] p = "delete" -> "hung in TagDelete"
      [] p = "ws" -> "hung in WebSocket stream"
      [] p = "spdy" -> "hung in SPDY stream"

\* run is inside a call that never returns
Hung == pc \in {HungAt(p) : p \in CallPositions}

\* variant: a tick that fires during a call that does not return cancels it
AdvanceCancels ==
    /\ clock' = (clock + 1) % Interval
    /\ IF clock' = 0
       THEN IF pc = "wait"
            THEN /\ StartCycle
                 /\ UNCHANGED <<tickBuf, prev>>
            ELSE IF Hung
            THEN /\ tickBuf' = 1
                 /\ pc' = "ret"
                 /\ err' = "cancelled"
                 /\ active' = active - 1
                 /\ quiet' = "none"
                 /\ UNCHANGED <<fetchVars, delVars, gcVars, calls, prev>>
            ELSE /\ tickBuf' = 1
                 /\ UNCHANGED <<pc, err, fetchVars, delVars, gcVars, calls,
                                active, quiet, prev>>
       ELSE UNCHANGED <<tickBuf, pc, err, fetchVars, delVars, gcVars, calls,
                        active, quiet, prev>>
    /\ UNCHANGED envVars

\* variant: every tick starts run, as a goroutine per tick would
AdvanceStartsCycle ==
    /\ clock' = (clock + 1) % Interval
    /\ IF clock' = 0 /\ (pc = "wait" \/ active < 2)
       THEN /\ StartCycle
            /\ UNCHANGED <<tickBuf, prev>>
       ELSE UNCHANGED <<tickBuf, pc, err, fetchVars, delVars, gcVars, calls,
                        active, quiet, prev>>
    /\ UNCHANGED envVars

\* time passes; after Interval quanta the ticker fires: the tick is handed to
\* main if it is blocked on the channel, else buffered, else dropped
Advance ==
    /\ clock' = (clock + 1) % Interval
    /\ IF clock' = 0
       THEN IF pc = "wait"
            THEN /\ StartCycle
                 /\ UNCHANGED <<tickBuf, prev>>
            ELSE /\ tickBuf' = 1
                 /\ UNCHANGED <<pc, err, fetchVars, delVars, gcVars, calls,
                                active, quiet, prev>>
       ELSE UNCHANGED <<tickBuf, pc, err, fetchVars, delVars, gcVars, calls,
                        active, quiet, prev>>
    /\ UNCHANGED envVars

(***************************************************************************)
(* run                                                                     *)
(***************************************************************************)
\* the call c is made to the registry or the cluster
Called(c) == calls' = calls (+) SetToBag({c})

\* run: the registry client, the cluster configuration, the cluster client
Setup ==
    /\ pc = "run"
    /\ \/ Return("cluster config")
       \/ Return("kubernetes client")
       \/ pc' = "repolist" /\ UNCHANGED <<err, quiet, active>>
    /\ UNCHANGED <<envVars, timeVars, fetchVars, delVars, gcVars, calls,
                   prev>>

\* fetchRegistryImages: rc.RepoList
RepoList ==
    /\ pc = "repolist"
    /\ Called(<<"RepoList", RegistryHost>>)
    /\ \/ Return("repository list") /\ UNCHANGED fetchVars
       \/ /\ pc' = IF Len(Repositories) = 0 THEN "podlist" ELSE "taglist"
          /\ UNCHANGED <<err, quiet, active, fetchVars>>
    /\ UNCHANGED <<envVars, timeVars, delVars, gcVars, prev>>

\* variant: a failed tag listing returns the images collected so far
TagListReturnsPartial ==
    /\ pc = "taglist"
    /\ LET repo == Repositories[idx]
       IN  \/ /\ Return("tag list")
              /\ regimgs' = imgs
              /\ UNCHANGED <<idx, imgs, podimgs>>
           \/ /\ imgs' = imgs \cup
                    {ComposeRef(repo, rt[2]) :
                         rt \in {x \in registry : x[1] = repo}}
              /\ IF idx = Len(Repositories)
                 THEN /\ regimgs' = imgs'
                      /\ pc' = "podlist"
                      /\ UNCHANGED idx
                 ELSE /\ idx' = idx + 1
                      /\ UNCHANGED <<pc, regimgs>>
              /\ UNCHANGED <<err, quiet, active, podimgs>>
    /\ Called(<<"TagList", RegistryHost, Repositories[idx]>>)
    /\ UNCHANGED <<envVars, timeVars, delVars, gcVars, prev>>

\* fetchRegistryImages: rc.TagList of one repository and the inner loop
TagList ==
    /\ pc = "taglist"
    /\ LET repo == Repositories[idx]
       IN  \/ Return("tag list") /\ UNCHANGED fetchVars
           \/ /\ imgs' = imgs \cup
                    {ComposeRef(repo, rt[2]) :
                         rt \in {x \in registry : x[1] = repo}}
              /\ IF idx = Len(Repositories)
                 THEN /\ regimgs' = imgs'
                      /\ pc' = "podlist"
                      /\ UNCHANGED idx
                 ELSE /\ idx' = idx + 1
                      /\ UNCHANGED <<pc, regimgs>>
              /\ UNCHANGED <<err, quiet, active, podimgs>>
    /\ Called(<<"TagList", RegistryHost, Repositories[idx]>>)
    /\ UNCHANGED <<envVars, timeVars, delVars, gcVars, prev>>

\* variant: the loop that removes the referenced images is missing
FilterNone(R, W) == R

\* variant: a pod's image is matched by repository and tag, whatever its host
FilterIgnoringHost(R, W) ==
    {img \in R : \A w \in W : Cut(w, "/").after # Cut(img, "/").after}

\* run: for img := range regimgs { if podimgs[img] { delete(regimgs, img) } }
FilterReferenced(R, W) == {img \in R : img \notin W}

\* variant: run returns early when nothing is left to delete
PodListSkipsGcWhenEmpty ==
    /\ pc = "podlist"
    /\ \/ Return("pod list") /\ UNCHANGED fetchVars
       \/ /\ podimgs' = pods
          /\ regimgs' = FilterReferenced(regimgs, pods)
          /\ IF regimgs' = {}
             THEN /\ Return("none")
                  /\ UNCHANGED <<idx, imgs>>
             ELSE /\ pc' = "delete"
                  /\ UNCHANGED <<quiet, err, active, idx, imgs>>
    /\ Called(<<"Pods.List">>)
    /\ UNCHANGED <<envVars, timeVars, delVars, gcVars, prev>>

\* fetchPodImages, then the loop that removes the referenced images
PodList ==
    /\ pc = "podlist"
    /\ \/ Return("pod list") /\ UNCHANGED fetchVars
       \/ /\ podimgs' = pods
          /\ regimgs' = FilterReferenced(regimgs, pods)
          /\ IF regimgs' = {}
             THEN /\ pc' = "gc"
                  /\ quiet' = IF quiet = "running"
                              THEN "clean" ELSE "none"
             ELSE /\ pc' = "delete"
                  /\ UNCHANGED quiet
          /\ UNCHANGED <<err, active, idx, imgs>>
    /\ Called(<<"Pods.List">>)
    /\ UNCHANGED <<envVars, timeVars, delVars, gcVars, prev>>

\* variant: the registry host is cut off at the last "/" of the reference
ParseImageLastSlash(img) ==
    LET slashes == {i \in 1..Len(img) : img[i] = "/"}
        last == CHOOSE i \in slashes : \A j \in slashes : j <= i
        rest == SubSeq(img, last + 1, Len(img))
        c2 == Cut(rest, ":")
    IN  IF slashes = {}
        THEN [ok |-> FALSE, err |-> "parse registry",
              repo |-> <<>>, tag |-> <<>>]
        ELSE IF ~c2.found
        THEN [ok |-> FALSE, err |-> "parse repo and tag",
              repo |-> <<>>, tag |-> <<>>]
        ELSE [ok |-> TRUE, err |-> "none",
              repo |-> c2.before, tag |-> c2.after]

\* variant: a remainder without ":" is taken as a repository with no tag
ParseImageCoerce(img) ==
    LET c1 == Cut(img, "/")
        c2 == Cut(c1.after, ":")
    IN  IF ~c1.found
        THEN [ok |-> FALSE, err |-> "parse registry",
              repo |-> <<>>, tag |-> <<>>]
        ELSE [ok |-> TRUE, err |-> "none",
              repo |-> c2.before, tag |-> c2.after]

\* variant: the registry host is checked for but left in the repository
ParseImageKeepsHost(img) ==
    LET c1 == Cut(img, "/")
        c2 == Cut(img, ":")
    IN  IF ~c1.found
        THEN [ok |-> FALSE, err |-> "parse registry",
              repo |-> <<>>, tag |-> <<>>]
        ELSE IF ~c2.found
        THEN [ok |-> FALSE, err |-> "parse repo and tag",
              repo |-> <<>>, tag |-> <<>>]
        ELSE [ok |-> TRUE, err |-> "none",
              repo |-> c2.before, tag |-> c2.after]

\* deleteImage: the two cuts
ParseImage(img) ==
    LET c1 == Cut(img, "/")
        c2 == Cut(c1.after, ":")
    IN  IF ~c1.found
        THEN [ok |-> FALSE, err |-> "parse registry",
              repo |-> <<>>, tag |-> <<>>]
        ELSE IF ~c2.found
        THEN [ok |-> FALSE, err |-> "parse repo and tag",
              repo |-> <<>>, tag |-> <<>>]
        ELSE [ok |-> TRUE, err |-> "none",
              repo |-> c2.before, tag |-> c2.after]

\* deleteImage: the calls of rc.TagDelete that deleteImage(img) makes
TagDeleteCalls(img) ==
    LET p == ParseImage(img)
    IN  IF p.ok
        THEN SetToBag({<<"TagDelete", RegistryHost, p.repo, p.tag>>})
        ELSE EmptyBag

\* deleteImage(img), called when att, del and tds are the calls made so far
deleteImage(img, att, del, tds) ==
    LET p == ParseImage(img)
    IN  /\ attempted' = att \cup {img}
        /\ IF ~p.ok
           THEN /\ err' = p.err
                /\ deleted' = del
                /\ tagDeletes' = tds
                /\ UNCHANGED registry
           ELSE /\ tagDeletes' = tds \cup {<<p.repo, p.tag>>}
                /\ \/ /\ <<p.repo, p.tag>> \in registry
                      /\ registry' = registry \ {<<p.repo, p.tag>>}
                      /\ deleted' = del \cup {img}
                      /\ err' = "none"
                   \/ /\ err' = "tag delete"
                      /\ deleted' = del
                      /\ UNCHANGED registry

\* variant: a failed deletion leaves the loop and run goes on to gcRegistry
DeleteLoopBreak ==
    /\ pc = "delete"
    /\ \E img \in regimgs \ attempted :
           /\ deleteImage(img, attempted, deleted, tagDeletes)
           /\ calls' = calls (+) TagDeleteCalls(img)
    /\ pc' = IF err' # "none" THEN "gc"
             ELSE IF regimgs \ attempted' = {} THEN "gc" ELSE "delete"
    /\ quiet' = "none"
    /\ UNCHANGED <<pods, envSteps, timeVars, fetchVars, gcVars, active, prev>>

\* run: one iteration of for img := range regimgs { deleteImage(img) }
DeleteLoop ==
    /\ pc = "delete"
    /\ \E img \in regimgs \ attempted :
           /\ deleteImage(img, attempted, deleted, tagDeletes)
           /\ calls' = calls (+) TagDeleteCalls(img)
    /\ pc' = IF err' # "none" THEN "ret"
             ELSE IF regimgs \ attempted' = {} THEN "gc" ELSE "delete"
    /\ active' = IF err' # "none" THEN active - 1 ELSE active
    /\ quiet' = IF err' # "none" THEN "none"
                ELSE IF pc' = "gc"
                     THEN (IF quiet = "running"
                           THEN "clean" ELSE "none")
                     ELSE quiet
    /\ UNCHANGED <<pods, envSteps, timeVars, fetchVars, gcVars, prev>>

(***************************************************************************)
(* gcRegistry                                                              *)
(***************************************************************************)
\* outcomes of a stream over the WebSocket transport
WsOutcomes == {"ok", "upgrade failure", "https proxy error", "other error"}
\* outcomes of a stream over the legacy transport
SpdyOutcomes == {"ok", "error"}

\* variant: only an upgrade failure falls back
ShouldFallbackUpgradeOnly(r) == r = "upgrade failure"

\* the predicate handed to NewFallbackExecutor
ShouldFallback(r) == r = "upgrade failure" \/ r = "https proxy error"

\* variant: the captured output is never put into the error
GcErrorDropsOutput(r, b) == IF r = "ok" THEN "none" ELSE "gc"

\* gcRegistry: what it returns for the stream's outcome r and the buffer b
GcError(r, b) ==
    IF r = "ok" THEN "none"
    ELSE IF b THEN "gc with output" ELSE "gc"

\* variant: without a WebSocket executor the legacy one streams alone
GcSetupLegacyAlone ==
    /\ pc = "gc"
    /\ Called(<<"gcRegistry">>)
    /\ \/ Return("spdy executor") /\ execs' = "spdy failed"
       \/ /\ pc' = "spdy"
          /\ execs' = "websocket failed"
          /\ UNCHANGED <<err, quiet, active>>
       \/ pc' = "ws" /\ execs' = "built" /\ UNCHANGED <<err, quiet, active>>
    /\ UNCHANGED <<envVars, timeVars, fetchVars, delVars, wsRes, spdyRes, buf,
                   prev>>

\* gcRegistry: the request and the two executors
GcSetup ==
    /\ pc = "gc"
    /\ Called(<<"gcRegistry">>)
    /\ \/ Return("spdy executor") /\ execs' = "spdy failed"
       \/ Return("websocket executor") /\ execs' = "websocket failed"
       \/ pc' = "ws" /\ execs' = "built" /\ UNCHANGED <<err, quiet, active>>
    /\ UNCHANGED <<envVars, timeVars, fetchVars, delVars, wsRes, spdyRes, buf,
                   prev>>

\* the fallback executor streams over the WebSocket executor first
GcWebSocket ==
    /\ pc = "ws"
    /\ \E r \in WsOutcomes, b \in BOOLEAN :
           /\ wsRes' = r
           /\ buf' = b
           /\ IF ShouldFallback(r)
              THEN pc' = "spdy" /\ UNCHANGED <<err, quiet, active>>
              ELSE Return(GcError(r, b))
    /\ Called(<<"WebSocket stream">>)
    /\ UNCHANGED <<envVars, timeVars, fetchVars, delVars, spdyRes, execs,
                   prev>>

\* variant: a failed stream over the legacy executor is tried once more
GcLegacyRetry ==
    /\ pc = "spdy"
    /\ \E r \in SpdyOutcomes, b \in BOOLEAN :
           /\ spdyRes' = r
           /\ buf' = (buf \/ b)
           /\ IF r = "error" /\ spdyRes = "none"
              THEN pc' = "spdy" /\ UNCHANGED <<err, quiet, active>>
              ELSE Return(GcError(r, buf'))
    /\ Called(<<"SPDY stream">>)
    /\ UNCHANGED <<envVars, timeVars, fetchVars, delVars, wsRes, execs,
                   prev>>

\* the fallback executor streams over the legacy executor
GcLegacy ==
    /\ pc = "spdy"
    /\ \E r \in SpdyOutcomes, b \in BOOLEAN :
           /\ spdyRes' = r
           /\ buf' = (buf \/ b)
           /\ Return(GcError(r, buf'))
    /\ Called(<<"SPDY stream">>)
    /\ UNCHANGED <<envVars, timeVars, fetchVars, delVars, wsRes, execs,
                   prev>>

(***************************************************************************)
(* The registry's other clients and the cluster.                           *)
(***************************************************************************)
EnvChange ==
    /\ envSteps < MaxEnvSteps
    /\ envSteps' = envSteps + 1
    /\ quiet' = "none"
    /\ prev' = "none"
    /\ UNCHANGED <<timeVars, pc, err, fetchVars, delVars, gcVars, calls,
                   active>>

\* an image is pushed to the registry
Push ==
    /\ \E rt \in Stored \ registry : registry' = registry \cup {rt}
    /\ UNCHANGED pods
    /\ EnvChange

\* a pod whose container declares a new image is created
PodStart ==
    /\ \E img \in PodImages \ pods : pods' = pods \cup {img}
    /\ UNCHANGED registry
    /\ EnvChange

\* the last pod that declares an image goes away
PodStop ==
    /\ \E img \in pods : pods' = pods \ {img}
    /\ UNCHANGED registry
    /\ EnvChange

(***************************************************************************)
(* Specifications.                                                         *)
(***************************************************************************)
Cycle ==
    \/ Setup
    \/ RepoList
    \/ TagList
    \/ PodList
    \/ DeleteLoop
    \/ GcSetup
    \/ GcWebSocket
    \/ GcLegacy
    \/ Loop

Next ==
    \/ Cycle
    \/ Advance
    \/ Push
    \/ PodStart
    \/ PodStop

Spec == Init /\ [][Next]_vars

\* the same program started on fewer registries and clusters, for the
\* properties of whole behaviours
LiveInit ==
    /\ Init
    /\ registry \in {{<<RepoA, TagV1>>}, {<<RepoA, TagV1>>, <<RepoLA, TagV1>>}}
    /\ pods = {ImageName(PublicHost, RepoA, TagV1)}

LiveSpec ==
    LiveInit /\ [][Next]_vars /\ WF_vars(Cycle) /\ WF_vars(Advance)

\* the call that run is about to make never returns
Hang ==
    /\ pc \in CallPositions
    /\ pc' = HungAt(pc)
    /\ UNCHANGED <<envVars, timeVars, err, fetchVars, delVars, gcVars, calls,
                   active, quiet, prev>>

HangNext ==
    \/ Next
    \/ Hang

\* the program with calls that may never return
HangSpec == Init /\ [][HangNext]_vars

\* deleteImage called on its own, with any string
InitCall ==
    /\ registry \in SUBSET Stored
    /\ pods = {}
    /\ envSteps = 0
    /\ clock = 0
    /\ tickBuf = 0
    /\ pc = "call"
    /\ active = 0
    /\ quiet = "none"
    /\ prev = "none"
    /\ Locals

Call ==
    /\ pc = "call"
    /\ \E img \in TestStrings : deleteImage(img, {}, {}, {})
    /\ UNCHANGED <<pods, envSteps, timeVars, pc, fetchVars, gcVars, calls,
                   active, quiet, prev>>

CallSpec == InitCall /\ [][Call]_vars

(***************************************************************************)
(* Properties.                                                             *)
(***************************************************************************)
\* run has returned to main, which has yet to look at the error
Returned == pc = "ret"

DeleteErrors == {"parse registry", "parse repo and tag", "tag delete"}
FetchErrors == {"repository list", "tag list", "pod list"}
GcErrors == {"spdy executor", "websocket executor", "gc", "gc with output"}

\* run has left its deletion loop with every deletion succeeding
DeletionsDone ==
    \/ pc \in {"gc", "ws", "spdy"}
    \/ Returned /\ err \in GcErrors \cup {"none"}

\* the three fields of a reference in canonical form
WellFormed(s) == Cut(s, "/").found /\ Cut(Cut(s, "/").after, ":").found
HostOf(s) == Cut(s, "/").before
RepoOf(s) == Cut(Cut(s, "/").after, ":").before
TagOf(s) == Cut(Cut(s, "/").after, ":").after
SameReference(r, w) ==
    /\ WellFormed(r) /\ WellFormed(w)
    /\ HostOf(r) = HostOf(w)
    /\ RepoOf(r) = RepoOf(w)
    /\ TagOf(r) = TagOf(w)

\* C1: in every cycle, no image of the workload inventory fetched in that
\* cycle is passed to deleteImage.
C1_NoReferencedImageDeleted == attempted \cap podimgs = {}

\* a cycle in which the registry holds referenced and unreferenced images
\* and the unreferenced ones have been passed to deleteImage
C1_Witness ==
    /\ pc = "gc"
    /\ imgs \cap podimgs # {}
    /\ attempted # {}

\* C2: when every deletion succeeds, the images run attempts to delete are
\* exactly the members of the registry inventory that equal no member of the
\* workload inventory in host, repository and tag.
C2_DeletesExactlyDifference ==
    DeletionsDone =>
        /\ attempted = {r \in imgs : \A w \in podimgs : ~SameReference(r, w)}
        /\ deleted = attempted

\* a:v2 is referenced under another host only and is deleted, while a
\* referenced image is kept
C2_Witness ==
    /\ DeletionsDone
    /\ ImageName(RegistryHost, RepoA, TagV2) \in podimgs
    /\ ImageName(PublicHost, RepoA, TagV2) \in attempted
    /\ imgs \cap podimgs # {}

\* C3: a cycle that follows a cycle whose deletions all succeeded, with no
\* change to the registry or the pods by others since that cycle started,
\* issues no deletion.
C3_Idempotent == prev # "none" => (attempted = {} /\ pc # "delete")

\* the cycle after one that deleted something has fetched a non-empty
\* registry inventory and has left its deletion loop
C3_Witness ==
    /\ prev = "deleted"
    /\ pc = "gc"
    /\ imgs # {}

\* a deletion of this cycle has failed
FailedAttempt == attempted \ deleted # {}

\* C4: when deleteImage fails the cycle ends at once with an error: no
\* further deletion, no gcRegistry, and what was deleted stays deleted.
C4_AbortOnDeleteFailure ==
    /\ [](FailedAttempt =>
            /\ Returned
            /\ err \in DeleteErrors
            /\ Cardinality(attempted \ deleted) = 1
            /\ wsRes = "none" /\ spdyRes = "none")
    /\ [][(FailedAttempt' /\ envSteps' = envSteps) =>
            /\ registry' = registry
            /\ deleted' = deleted
            /\ (FailedAttempt => attempted' = attempted)]_vars

\* the second of three deletions failed: one image is deleted, two remain
C4_Witness ==
    /\ Returned
    /\ err = "tag delete"
    /\ Cardinality(regimgs) = 3
    /\ Cardinality(deleted) = 1
    /\ Cardinality(attempted) = 2
    /\ \A img \in regimgs \ deleted : <<RepoOf(img), TagOf(img)>> \in registry
    /\ \A img \in deleted : <<RepoOf(img), TagOf(img)>> \notin registry

\* the cycle is fetching the inventories or has failed to
Fetching ==
    \/ pc \in {"repolist", "taglist", "podlist"}
    \/ Returned /\ err \in FetchErrors

\* C5: a failed repository, tag or pod listing returns no partial inventory
\* and ends the cycle with no deletion attempted, no GC trigger and the
\* registry unchanged.
C5_FetchFailureAborts ==
    /\ [](Returned /\ err \in FetchErrors =>
            /\ err \in {"repository list", "tag list"} => regimgs = {}
            /\ err = "pod list" => podimgs = {}
            /\ attempted = {} /\ tagDeletes = {} /\ deleted = {}
            /\ wsRes = "none" /\ spdyRes = "none")
    /\ [][(Fetching' /\ envSteps' = envSteps) => registry' = registry]_vars

\* the tag listing of the second repository failed after the first
\* repository's images were collected
C5_Witness ==
    /\ Returned
    /\ err = "tag list"
    /\ idx = 2
    /\ imgs # {}

FallbackClasses == {"upgrade failure", "https proxy error"}

\* C6: the WebSocket executor is attempted first; the legacy executor is
\* attempted if and only if the WebSocket attempt failed with an upgrade
\* failure or an HTTPS proxy error; any other outcome is final.
C6_FallbackOnlyOnUpgradeOrProxy ==
    /\ (pc = "spdy" \/ spdyRes # "none") => wsRes \in FallbackClasses
    /\ (Returned /\ wsRes # "none") =>
           (spdyRes # "none" <=> wsRes \in FallbackClasses)
    /\ (Returned /\ wsRes = "other error") =>
           err \in {"gc", "gc with output"}
    /\ (Returned /\ wsRes = "ok") => err = "none"

\* the WebSocket stream failed with an HTTPS proxy error and the legacy
\* stream was attempted
C6_Witness ==
    /\ Returned
    /\ wsRes = "https proxy error"
    /\ spdyRes = "ok"
    /\ err = "none"

\* main calls run: a cycle starts in this step
CycleStarts == pc # "run" /\ pc' = "run"

\* the ticker fires in this step
TickerFires == clock = Interval - 1 /\ clock' = 0

\* main receives a tick in this step: the one that fires while main is
\* blocked on the channel, or the buffered one
TickReceived ==
    \/ pc = "wait" /\ TickerFires
    \/ pc = "ret" /\ tickBuf = 1 /\ tickBuf' = 0

\* C7 as stated: a failed cycle neither ends the process nor is retried
\* early; the next cycle starts only at a scheduled tick of the ticker,
\* however long the cycle lasted.
C7_NextCycleAtScheduledTick == [][CycleStarts => clock' = 0]_vars

\* C7 as amended: after a cycle, failed or not, main either blocks or starts
\* the next cycle, and the next cycle starts only in a step in which main
\* receives a tick, fired just now or buffered while the cycle was running.
C7_NextCycleOnTickReceipt ==
    [][/\ pc = "ret" => pc' \in {"ret", "wait", "run"}
       /\ pc = "wait" => pc' \in {"wait", "run"}
       /\ CycleStarts => TickReceived]_vars

\* a failed cycle has outlasted the interval: a tick is buffered and the
\* next cycle starts as soon as main evaluates the post statement
C7_Witness ==
    /\ pc = "ret"
    /\ err # "none"
    /\ tickBuf = 1
    /\ clock # 0

\* C8: the first cycle starts at process start without a tick; afterwards a
\* cycle starts exactly when main receives a tick; and if every call of a
\* cycle returns, cycles start again and again.
C8_CyclesForever ==
    /\ pc = "run" /\ tickBuf = 0 /\ clock = 0
    /\ [][CycleStarts <=> TickReceived]_vars
    /\ []<><<CycleStarts>>_vars

\* a cycle has started after an earlier one ran to its end
C8_Witness ==
    /\ pc = "run"
    /\ prev # "none"
    /\ tickBuf = 0

\* C9: every reference of the registry inventory carries the public host
\* "ctr.lesiw.dev", and no repository and tag whose public reference is in
\* the workload inventory is passed to TagDelete.
C9_PublicReferenceKept ==
    /\ \A img \in imgs :
           \E r \in RepoSet, t \in Tags : img = ImageName(PublicHost, r, t)
    /\ \A rt \in tagDeletes :
           ImageName(PublicHost, rt[1], rt[2]) \notin podimgs

\* a:v1 is in the registry, a pod runs "ctr.lesiw.dev/a:v1", and the cycle
\* has deleted other images and left a:v1 alone
C9_Witness ==
    /\ pc = "gc"
    /\ <<RepoA, TagV1>> \in registry
    /\ ImageName(PublicHost, RepoA, TagV1) \in podimgs
    /\ tagDeletes # {}

\* a string with no "/", or with no ":" after its first "/"
Malformed(s) ==
    \/ \A i \in 1..Len(s) : s[i] # "/"
    \/ \E i \in 1..Len(s) :
           /\ s[i] = "/"
           /\ \A j \in 1..(i-1) : s[j] # "/"
           /\ \A k \in (i+1)..Len(s) : s[k] # ":"

\* C10: deleteImage rejects a string with no "/" and a string with no ":"
\* after its first "/" with a parse error, and issues no TagDelete for it.
C10_MalformedRejected ==
    /\ [](\A img \in attempted :
            Malformed(img) =>
                /\ err \in {"parse registry", "parse repo and tag"}
                /\ tagDeletes = {}
                /\ deleted = {})
    /\ [][(\E img \in attempted' : Malformed(img)) =>
              registry' = registry]_vars

\* deleteImage was called with a string that has a "/" but no ":" after it
C10_Witness ==
    /\ pc = "call"
    /\ attempted = {RegistryHost \o <<"/">> \o RepoA}
    /\ err = "parse repo and tag"
    /\ registry # {}

\* the outcome of exec.StreamWithContext: that of the legacy stream if there
\* was one, else that of the WebSocket stream
StreamOutcome == IF spdyRes # "none" THEN spdyRes ELSE wsRes

\* C11: when the stream ends in an error gcRegistry returns an error that
\* embeds the captured output if and only if the output is non-empty; when
\* the stream ends without error gcRegistry returns success, whatever the
\* output.
C11_OutputInErrorIffNonEmpty ==
    (Returned /\ wsRes # "none") =>
        /\ StreamOutcome = "ok" => err = "none"
        /\ (StreamOutcome # "ok" /\ buf) => err = "gc with output"
        /\ (StreamOutcome # "ok" /\ ~buf) => err = "gc"

\* the legacy stream failed after the fallback and output was captured
C11_Witness ==
    /\ Returned
    /\ wsRes = "upgrade failure"
    /\ spdyRes = "error"
    /\ buf
    /\ err = "gc with output"

\* how many times the call c has been made in this cycle
Count(c) == CopiesIn(c, calls)

\* the listings of the registry have all been made
RegistryListed ==
    /\ Count(<<"RepoList", RegistryHost>>) = 1
    /\ \A i \in 1..Len(Repositories) :
           Count(<<"TagList", RegistryHost, Repositories[i]>>) = 1

\* a deletion has been issued in this cycle
DeletionIssued ==
    \/ attempted # {}
    \/ \E c \in BagToSet(calls) : c[1] = "TagDelete"

\* C12: within a cycle the registry is listed, then the pods, then the
\* deletions are issued, then gcRegistry is invoked: no deletion before both
\* listings are complete, and gcRegistry exactly once, after the last
\* deletion, in every cycle whose listings and deletions all succeed, the
\* cycle with nothing to delete included.
C12_StepsInOrder ==
    /\ [](/\ Count(<<"Pods.List">>) > 0 => RegistryListed
          /\ DeletionIssued => (RegistryListed /\ Count(<<"Pods.List">>) = 1)
          /\ Count(<<"gcRegistry">>) > 0 =>
                 /\ RegistryListed /\ Count(<<"Pods.List">>) = 1
                 /\ attempted = regimgs /\ deleted = regimgs
          /\ Returned =>
                 Count(<<"gcRegistry">>) =
                     IF err \in FetchErrors \cup DeleteErrors
                               \cup {"cluster config", "kubernetes client"}
                     THEN 0 ELSE 1)
    /\ [][Count(<<"gcRegistry">>) > 0 =>
              (attempted' = attempted \/ attempted' = {})]_vars

\* a cycle that found every image referenced has invoked gcRegistry
C12_Witness ==
    /\ Returned
    /\ err = "none"
    /\ imgs # {}
    /\ regimgs = {}
    /\ Count(<<"gcRegistry">>) = 1

\* repository names with no, one and two "/" in them, none with a ":"
RoundTripRepos == RepoSet \cup {<<"l", "/", "a", "/", "b">>}

\* C13: composing a reference from a listed repository and tag and parsing
\* it back in deleteImage gives the repository and the tag again, whatever
\* "/" the repository holds, so that the TagDelete calls of a cycle are for
\* exactly the listed (repository, tag) pairs of the images it set out to
\* delete, each on the registry "registry:5000".
C13_DeleteTargetsListedTag ==
    /\ \A r \in RoundTripRepos, t \in Tags :
           LET p == ParseImage(ComposeRef(r, t))
           IN  p.ok /\ p.repo = r /\ p.tag = t
    /\ tagDeletes = {rt \in RepoSet \X Tags :
                         ComposeRef(rt[1], rt[2]) \in attempted}
    /\ \A c \in BagToSet(calls) :
           c[1] = "TagDelete" =>
               /\ c[2] = <<"r","e","g","i","s","t","r","y",":","5","0","0","0">>
               /\ <<c[3], c[4]>> \in tagDeletes
    /\ \A rt \in tagDeletes :
           Count(<<"TagDelete", RegistryHost, rt[1], rt[2]>>) > 0

\* the tag of a repository with a "/" in its name has been deleted
C13_Witness ==
    /\ pc = "gc"
    /\ ComposeRef(RepoLA, TagV1) \in deleted
    /\ <<RepoLA, TagV1>> \in tagDeletes
    /\ <<RepoLA, TagV1>> \notin registry
    /\ Count(<<"TagDelete", RegistryHost, RepoLA, TagV1>>) = 1

\* C14: nothing is retried within a cycle: every call to the registry or
\* the cluster (RepoList, TagList of a repository, Pods.List, TagDelete of an
\* image, the stream over each transport) is made at most once, a failed call
\* ends the cycle, and a failure of the legacy stream after the fallback is
\* the error of the cycle.
C14_NoRetryWithinCycle ==
    /\ \A c \in BagToSet(calls) : Count(c) <= 1
    /\ (Returned /\ err \in FetchErrors \cup DeleteErrors) =>
           Count(<<"gcRegistry">>) = 0
    /\ (Returned /\ wsRes \notin {"none", "ok"} /\ ~ShouldFallback(wsRes)) =>
           (spdyRes = "none" /\ err \in GcErrors)
    /\ (Returned /\ spdyRes = "error") => err \in {"gc", "gc with output"}

\* the legacy stream failed after the fallback and the cycle returned that
C14_Witness ==
    /\ Returned
    /\ wsRes = "upgrade failure"
    /\ spdyRes = "error"
    /\ err = "gc"
    /\ attempted # {}
    /\ Count(<<"WebSocket stream">>) = 1
    /\ Count(<<"SPDY stream">>) = 1

\* the construction of one of the two executors has failed in this cycle
ExecutorFailed == execs \in {"spdy failed", "websocket failed"}

\* C15: when the construction of either executor fails, gcRegistry returns
\* that error and nothing is streamed over either transport; the deletions
\* the cycle has made stand.
C15_ExecutorFailureNoStream ==
    /\ [](ExecutorFailed =>
              /\ Returned
              /\ err = (IF execs = "spdy failed"
                        THEN "spdy executor" ELSE "websocket executor")
              /\ wsRes = "none" /\ spdyRes = "none" /\ ~buf
              /\ Count(<<"WebSocket stream">>) = 0
              /\ Count(<<"SPDY stream">>) = 0
              /\ deleted = regimgs)
    /\ [][(ExecutorFailed' /\ ~ExecutorFailed) =>
              (registry' = registry /\ deleted' = deleted
               /\ tagDeletes' = tagDeletes)]_vars

\* an executor could not be built after an image had been deleted
C15_Witness ==
    /\ Returned
    /\ execs = "websocket failed"
    /\ err = "websocket executor"
    /\ deleted # {}
    /\ \E rt \in tagDeletes : rt \notin registry

\* C16: cycles never overlap: at most one call of run is in progress, a
\* cycle starts only when none is, and a tick that fires while a cycle is
\* running, however long that cycle has lasted, starts nothing and leaves
\* the running cycle where it is.
C16_CyclesNeverOverlap ==
    /\ [](/\ active \in {0, 1}
          /\ active = 0 <=> pc \in {"ret", "wait"})
    /\ [][/\ active' > active => (active = 0 /\ pc \in {"ret", "wait"})
          /\ (TickerFires /\ active = 1) =>
                 /\ active' = 1
                 /\ tickBuf' = 1
                 /\ UNCHANGED <<pc, err, fetchVars, delVars, gcVars, calls>>
      ]_vars

\* a tick is buffered while run is in the middle of its work and the ticker
\* is about to fire again
C16_Witness ==
    /\ active = 1
    /\ tickBuf = 1
    /\ clock = Interval - 1
    /\ pc \in {"delete", "ws", "spdy"}
    /\ attempted # {}

\* C17: no call is given a timeout or a cancellation: once a call of a
\* cycle never returns, run stays in that call, the cycle does not end, and
\* no other cycle is started, however many ticks fire.
C17_HungCallBlocksForever ==
    /\ [](Hung => active = 1)
    /\ [][Hung =>
              /\ pc' = pc
              /\ active' = active
              /\ UNCHANGED <<err, fetchVars, delVars, gcVars, calls>>
              /\ TickerFires => tickBuf' = 1
      ]_vars

\* a tick is buffered, and the next is about to fire, while a deletion that
\* does not return is outstanding
C17_Witness ==
    /\ pc = HungAt("delete")
    /\ tickBuf = 1
    /\ clock = Interval - 1
    /\ regimgs # {}

====
